---- MODULE Spec2Model ----
(***************************************************************************)
(* A model of src/app.py: the Streamlit medical assistant.                 *)
(*                                                                         *)
(* Python str values are TLA+ strings (TLC evaluates Len, Head, Tail,      *)
(* SubSeq and \o on them), lists are sequences, dicts are records.         *)
(* One script rerun of the Streamlit page is one action.  The search and   *)
(* completion backends are external: what they answer is an input of the   *)
(* action, drawn from a bounded set.                                        *)
(***************************************************************************)
EXTENDS Naturals, Sequences, FiniteSets, TLC

VARIABLES
    history,          \* st.session_state.history
    op,               \* what this step ran: the rerun's cause, or the function called
    question,         \* the text of the question input in this rerun
    user_age,         \* sidebar text input
    user_gender,      \* sidebar selectbox
    calls,            \* the backend calls made in this rerun, in order
    snippets,         \* what get_medical_snippets returned in this rerun
    answer,           \* answer_medical_question's first result
    sources,          \* answer_medical_question's second result
    risk_advisories,  \* get_risk_snippets' result
    raised,           \* an exception escaped the function/handler of this rerun
    histView,         \* the entries the history tab rendered, top to bottom
    flat_data,        \* the rows handed to pandas for the CSV download
    num_results,      \* get_medical_snippets' second argument
    search_reply,     \* what the search backend does when get_medical_snippets is called on its own
    severity          \* classify_severity's result

vars == <<history, op, question, user_age, user_gender, calls, snippets,
          answer, sources, risk_advisories, raised, histView, flat_data,
          num_results, search_reply, severity>>

----------------------------------------------------------------------------
(* Bounds of the model *)

MaxItems == 3
MaxHistory == 2
MaxRiskFrags == 2
MaxSevFrags == 3

----------------------------------------------------------------------------
(* Python's str operations *)

\* `needle in hay` for str
Contains(hay, needle) ==
    \E i \in 1..(Len(hay) + 1) :
        /\ i + Len(needle) - 1 <= Len(hay)
        /\ SubSeq(hay, i, i + Len(needle) - 1) = needle

EndsWith(s, suffix) ==
    /\ Len(suffix) <= Len(s)
    /\ SubSeq(s, Len(s) - Len(suffix) + 1, Len(s)) = suffix

StartsWith(s, prefix) ==
    /\ Len(prefix) <= Len(s)
    /\ SubSeq(s, 1, Len(prefix)) = prefix

\* the ASCII letters' lower case
LowerChar(c) ==
    CASE c = "A" -> "a" [] c = "B" -> "b" [] c = "C" -> "c" [] c = "D" -> "d"
      [] c = "E" -> "e" [] c = "F" -> "f" [] c = "G" -> "g" [] c = "H" -> "h"
      [] c = "I" -> "i" [] c = "J" -> "j" [] c = "K" -> "k" [] c = "L" -> "l"
      [] c = "M" -> "m" [] c = "N" -> "n" [] c = "O" -> "o" [] c = "P" -> "p"
      [] c = "Q" -> "q" [] c = "R" -> "r" [] c = "S" -> "s" [] c = "T" -> "t"
      [] c = "U" -> "u" [] c = "V" -> "v" [] c = "W" -> "w" [] c = "X" -> "x"
      [] c = "Y" -> "y" [] c = "Z" -> "z" [] OTHER -> c

\* str.lower()
RECURSIVE lower(_)
lower(s) == IF s = "" THEN "" ELSE LowerChar(Head(s)) \o lower(Tail(s))

IsSpace(c) == c \in {" ", "\n", "\t", "\r"}

RECURSIVE lstrip(_)
lstrip(s) == IF s # "" /\ IsSpace(Head(s)) THEN lstrip(Tail(s)) ELSE s

RECURSIVE rstrip(_)
rstrip(s) ==
    IF s # "" /\ IsSpace(SubSeq(s, Len(s), Len(s)))
    THEN rstrip(SubSeq(s, 1, Len(s) - 1))
    ELSE s

\* str.strip()
strip(s) == rstrip(lstrip(s))

\* sep.join(parts)
RECURSIVE join(_, _)
join(sep, parts) ==
    IF parts = <<>> THEN ""
    ELSE IF Len(parts) = 1 THEN parts[1]
    ELSE parts[1] \o sep \o join(sep, Tail(parts))

Reverse(s) == [i \in 1..Len(s) |-> s[Len(s) + 1 - i]]

----------------------------------------------------------------------------
(* Source Retriever: get_medical_snippets *)

TRUSTED_SITES ==
    << "site:nhs.uk", "site:nih.gov", "site:mayoclinic.org", "site:who.int",
       "site:cdc.gov", "site:clevelandclinic.org", "site:health.harvard.edu",
       "site:pubmed.ncbi.nlm.nih.gov", "site:webmd.com", "site:medlineplus.gov" >>

DefaultNumResults == 5

\* dict.get(key, "") on a result item
Get(item, key) == IF key \in DOMAIN item THEN item[key] ELSE ""

\* the sort key: lambda x: 0 if "nhs.uk" in x.get("link", "") else 1
SortKey(x) == IF Contains(Get(x, "link"), "nhs.uk") THEN 0 ELSE 1

\* list.sort(key=...) is stable: an insertion sort that puts an element after
\* every element whose key is not greater than its own
RECURSIVE InsertByKey(_, _)
InsertByKey(sorted, x) ==
    IF sorted = <<>> THEN <<x>>
    ELSE IF SortKey(Head(sorted)) <= SortKey(x)
         THEN <<Head(sorted)>> \o InsertByKey(Tail(sorted), x)
         ELSE <<x>> \o sorted

RECURSIVE SortItems(_)
SortItems(items) ==
    IF items = <<>> THEN <<>>
    ELSE InsertByKey(SortItems(SubSeq(items, 1, Len(items) - 1)), items[Len(items)])

\* (item["title"], item["link"], item["snippet"]): a missing key is a KeyError
HasAllKeys(item) == {"title", "link", "snippet"} \subseteq DOMAIN item

Triple(item) == <<item["title"], item["link"], item["snippet"]>>

\* the query string sent to the search backend
DomainQuery == join(" OR ", TRUSTED_SITES)

SearchQuery(query) == query \o " (" \o DomainQuery \o ")"

\* the body of the try block, given what the backend did: the exception it
\* ends with ("" when none) and the value it returns
TryFetch(response) ==
    IF response.kind = "ConnectionError"
    THEN [exc |-> "ConnectionError", val |-> <<>>]     \* requests.get raises
    ELSE IF response.kind = "HTTPError"
    THEN [exc |-> "HTTPError", val |-> <<>>]           \* raise_for_status raises
    ELSE IF response.kind = "BadJson"
    THEN [exc |-> "JSONDecodeError", val |-> <<>>]     \* response.json() raises
    ELSE IF response.kind = "JsonArray"
    THEN [exc |-> "AttributeError", val |-> <<>>]      \* list has no .get
    ELSE LET items  == IF response.kind = "JsonNoItems" THEN <<>> ELSE response.items
             sorted == SortItems(items)
         IN  IF \E i \in 1..Len(sorted) : ~HasAllKeys(sorted[i])
             THEN [exc |-> "KeyError", val |-> <<>>]
             ELSE [exc |-> "", val |-> [i \in 1..Len(sorted) |-> Triple(sorted[i])]]

\* `except Exception` catches every exception the try block can end with
CaughtByExcept(exc) ==
    exc \in {"ConnectionError", "HTTPError", "JSONDecodeError", "AttributeError",
             "KeyError"}

\* the search backend call get_medical_snippets makes
SearchCall(query, num, response) ==
    [api |-> "search", request |-> [q |-> SearchQuery(query), num |-> num],
     result |-> response]

\* a narrower except clause (requests.RequestException only)
get_medical_snippets_narrow(query, num, response) ==
    LET r == TryFetch(response)
    IN  IF r.exc = "" THEN [raised |-> FALSE, val |-> r.val]
        ELSE IF r.exc \in {"ConnectionError", "HTTPError"}
             THEN [raised |-> FALSE, val |-> <<>>]
             ELSE [raised |-> TRUE, val |-> <<>>]

get_medical_snippets(query, num, response) ==
    LET r == TryFetch(response)
    IN  IF r.exc = "" THEN [raised |-> FALSE, val |-> r.val]
        ELSE IF CaughtByExcept(r.exc)
             THEN [raised |-> FALSE, val |-> <<>>]     \* except Exception: return []
             ELSE [raised |-> TRUE, val |-> <<>>]

----------------------------------------------------------------------------
(* Answer Synthesizer: answer_medical_question *)

NO_SOURCES_MESSAGE ==
    "Sorry, I couldn't find reliable sources for this question right now."

DISCLAIMER ==
    "\n\n**Disclaimer:** This response is not a substitute for professional medical advice. Always consult your healthcare provider."

ERROR_PREFIX == "OpenAI API Error: "

MODEL == "gpt-4o"

\* f"- **{title}**: {snippet}" for each snippet, joined by newlines
Context(snips) ==
    join("\n", [i \in 1..Len(snips) |-> "- **" \o snips[i][1] \o "**: " \o snips[i][3]])

\* [(title, link) for title, link, snippet in snippets]
SourcesOf(snips) == [i \in 1..Len(snips) |-> <<snips[i][1], snips[i][2]>>]

\* the prompt template up to the snippets (its en dash written as a hyphen)
PromptHead ==
    "\nYou are a helpful and friendly medical assistant.\n\n"
    \o "Your job is to provide a clear and easy-to-understand answer using only the trusted snippets below. \n"
    \o "If the question describes symptoms, list possible causes, including both common and serious conditions where relevant. \n"
    \o "Use plain English with short sentences (5-7 sentences max). \n"
    \o "Avoid medical jargon, and explain in simple terms. \n"
    \o "Always include a safety reminder like \"Talk to a doctor to be sure.\"\n\n"
    \o "After the answer, include a short list of the sources used.\n\n"
    \o "Snippets:\n"

Prompt(context, q) == PromptHead \o context \o "\n\nQuestion: " \o q \o "\n\nAnswer:\n"

CompletionCall(prompt, completion) ==
    [api |-> "completion", request |-> [model |-> MODEL, content |-> prompt],
     result |-> completion]

\* the try block around the completion call: whether it ends with an
\* exception, the exception's str(e), and the stripped content otherwise
TryComplete(completion) ==
    IF completion.kind = "raise"                   \* client...create raises
    THEN [failed |-> TRUE, detail |-> completion.detail, text |-> ""]
    ELSE IF completion.kind = "NoChoices"          \* response.choices[0]
    THEN [failed |-> TRUE, detail |-> "list index out of range", text |-> ""]
    ELSE IF completion.kind = "NoneContent"        \* None.strip()
    THEN [failed |-> TRUE, detail |-> "'NoneType' object has no attribute 'strip'",
          text |-> ""]
    ELSE [failed |-> FALSE, detail |-> "", text |-> strip(completion.content)]

\* the emptiness test placed after the completion call
NoSourcesResult_after_call(snips, first, call, done) ==
    [raised |-> FALSE, answer |-> NO_SOURCES_MESSAGE, sources |-> <<>>,
     snippets |-> snips, calls |-> <<first, call>>]

\* if not snippets: return the message and no sources
NoSourcesResult(snips, first, call, done) ==
    [raised |-> FALSE, answer |-> NO_SOURCES_MESSAGE, sources |-> <<>>,
     snippets |-> snips, calls |-> <<first>>]

\* the except branch returning the sources it had built
FailureResult_keeps_sources(snips, first, call, done) ==
    [raised |-> FALSE, answer |-> ERROR_PREFIX \o done.detail,
     sources |-> SourcesOf(snips), snippets |-> snips, calls |-> <<first, call>>]

\* except Exception as e: return f"OpenAI API Error: {e}", []
FailureResult(snips, first, call, done) ==
    [raised |-> FALSE, answer |-> ERROR_PREFIX \o done.detail, sources |-> <<>>,
     snippets |-> snips, calls |-> <<first, call>>]

\* the disclaimer left off
SuccessResult_no_disclaimer(snips, first, call, done) ==
    [raised |-> FALSE, answer |-> done.text, sources |-> SourcesOf(snips),
     snippets |-> snips, calls |-> <<first, call>>]

\* return answer + disclaimer, sources
SuccessResult(snips, first, call, done) ==
    [raised |-> FALSE, answer |-> done.text \o DISCLAIMER,
     sources |-> SourcesOf(snips), snippets |-> snips, calls |-> <<first, call>>]

\* answer_medical_question(question), given what the two backends do when
\* called: its two results, whether an exception escaped, the snippets it got
\* and the backend calls it made, in order
answer_medical_question(q, response, completion) ==
    LET got   == get_medical_snippets(q, DefaultNumResults, response)
        snips == got.val
        first == SearchCall(q, DefaultNumResults, response)
        call  == CompletionCall(Prompt(Context(snips), q), completion)
        done  == TryComplete(completion)
    IN  IF got.raised
        THEN [raised |-> TRUE, answer |-> "", sources |-> <<>>, snippets |-> <<>>,
              calls |-> <<first>>]
        ELSE IF snips = <<>> THEN NoSourcesResult(snips, first, call, done)
        ELSE IF done.failed THEN FailureResult(snips, first, call, done)
        ELSE SuccessResult(snips, first, call, done)

----------------------------------------------------------------------------
(* Advisory Matcher: get_risk_snippets *)

\* the dict's items, in definition order (a Python dict keeps it)
RISK_SNIPPETS == <<
    <<"antibiotics", "Misuse or overuse of antibiotics can lead to antibiotic resistance, making infections difficult to treat. Always complete your prescribed antibiotic course.">>,
    <<"vaccines", "Misconception: Vaccines cause autism. Extensive research shows vaccines are safe and vital for preventing serious diseases.">>,
    <<"ibuprofen", "Long-term use or high doses of ibuprofen can increase the risk of gastrointestinal bleeding and kidney damage.">>,
    <<"acetaminophen", "Taking too much acetaminophen (paracetamol) can lead to liver damage.">>,
    <<"aspirin", "Aspirin can cause gastrointestinal ulcers or bleeding when used frequently or at high doses.">>,
    <<"turmeric", "Turmeric can interact with blood thinners and other medications, increasing bleeding risks.">>,
    <<"methotrexate", "Methotrexate requires regular monitoring of blood tests due to potential liver, kidney, or blood complications.">>,
    <<"statins", "Statins rarely cause severe muscle pain; serious side effects should be medically monitored.">>,
    <<"antidepressants", "Misconception: Antidepressants are addictive. They are not addictive but require medical supervision.">>,
    <<"chest pain", "Chest pain could indicate a serious condition like a heart attack. Immediate medical attention is crucial.">>,
    <<"headache", "A sudden severe headache could be a sign of a stroke or aneurysm; seek immediate medical help.">>,
    <<"fever", "Mild fevers help the body fight infection; high or persistent fever requires medical evaluation.">>,
    <<"back pain", "Chronic lower back pain is often due to lifestyle factors or posture; avoid long-term reliance on painkillers without addressing the cause.">>,
    <<"fatigue", "Persistent fatigue may indicate anemia, thyroid disorders, or depression; always discuss prolonged fatigue with a healthcare provider.">>,
    <<"rash", "Certain rashes can indicate severe allergic reactions or infections; immediate attention is required if accompanied by fever or breathing difficulties.">>
>>

\* the for loop from item i on, matched_snippets so far
RECURSIVE RiskLoop(_, _, _)
RiskLoop(query_lower, i, matched_snippets) ==
    IF i > Len(RISK_SNIPPETS) THEN matched_snippets
    ELSE RiskLoop(query_lower, i + 1,
                  IF Contains(query_lower, RISK_SNIPPETS[i][1])
                  THEN Append(matched_snippets, RISK_SNIPPETS[i][2])
                  ELSE matched_snippets)

\* the keyword tested against the query as typed
get_risk_snippets_case_sensitive(query) == RiskLoop(query, 1, <<>>)

get_risk_snippets(query) == RiskLoop(lower(query), 1, <<>>)

----------------------------------------------------------------------------
(* Severity Classifier: classify_severity.  The function is not in          *)
(* src/app.py; it is modelled from the specification's section 4.5, with    *)
(* the two keywords the specification names.                                *)

IMMEDIATE_KEYWORDS == {"chest pain"}

URGENT_KEYWORDS == {"dizziness"}

\* the Urgent group tested first
classify_severity_urgent_first(q) ==
    IF \E k \in URGENT_KEYWORDS : Contains(lower(q), k) THEN "Urgent"
    ELSE IF \E k \in IMMEDIATE_KEYWORDS : Contains(lower(q), k) THEN "Immediate"
    ELSE "Routine"

classify_severity(q) ==
    IF \E k \in IMMEDIATE_KEYWORDS : Contains(lower(q), k) THEN "Immediate"
    ELSE IF \E k \in URGENT_KEYWORDS : Contains(lower(q), k) THEN "Urgent"
    ELSE "Routine"

----------------------------------------------------------------------------
(* Inputs *)

RECURSIVE Concats(_, _)
\* the concatenations of at most n of the fragments
Concats(frags, n) ==
    IF n = 0 THEN {""}
    ELSE LET shorter == Concats(frags, n - 1)
         IN  shorter \cup {s \o f : s \in shorter, f \in frags}

RECURSIVE SeqsUpTo(_, _)
\* the sequences of at most n elements of S
SeqsUpTo(S, n) ==
    IF n = 0 THEN {<<>>}
    ELSE LET shorter == SeqsUpTo(S, n - 1)
         IN  shorter \cup {Append(s, x) : s \in shorter, x \in S}

ItemA == [title |-> "NHS", link |-> "https://www.nhs.uk/a", snippet |-> "sa"]
ItemB == [title |-> "CDC", link |-> "https://www.cdc.gov/b", snippet |-> "sb"]
ItemC == [title |-> "WHO", link |-> "https://www.who.int/c", snippet |-> "sc"]
ItemD == [link |-> "https://www.nhs.uk/d", snippet |-> "sd"]
ItemE == [title |-> "Mayo", snippet |-> "se"]
ItemF == [title |-> "NIH", link |-> "https://www.nih.gov/f"]

Items == {ItemA, ItemB, ItemC, ItemD, ItemE, ItemF}

\* a backend that ignores the requested count
OverCapItems == <<ItemB, ItemA, ItemC, ItemC, ItemA, ItemB>>

FailedResponses ==
    {[kind |-> "ConnectionError"], [kind |-> "HTTPError"], [kind |-> "BadJson"],
     [kind |-> "JsonArray"]}

Responses ==
    FailedResponses \cup {[kind |-> "JsonNoItems"]}
    \cup {[kind |-> "JsonItems", items |-> s] :
            s \in SeqsUpTo(Items, MaxItems) \cup {OverCapItems}}

NumResults == {2, DefaultNumResults}

Queries == {"What causes headaches?"}

Questions == {"What causes headaches?", "I feel tired"}

RerunQuestions == {"", "I feel tired"}

Ages == {"", "34"}

Genders == {"Prefer not to say", "Male"}

SessionResponses ==
    {[kind |-> "ConnectionError"], [kind |-> "JsonNoItems"],
     [kind |-> "JsonItems", items |-> <<ItemB, ItemA>>],
     [kind |-> "JsonItems", items |-> <<ItemB, ItemD>>]}

Completions ==
    {[kind |-> "ok", content |-> "  Rest and drink water. Talk to a doctor to be sure.\n"],
     [kind |-> "raise", detail |-> "Connection error."],
     [kind |-> "NoneContent"]}

RiskFragments == {"Ibuprofen ", "ASPIRIN", "c", "rash", "chest ", "pain"}

RiskQuestions == Concats(RiskFragments, MaxRiskFrags) \ {""}

RiskAges == {"", "fever"}

SevFragments == {"chest pain", "Dizziness", " and ", "CHEST ", "pain"}

SevQuestions == Concats(SevFragments, MaxSevFrags)

----------------------------------------------------------------------------
(* The page: one action per script rerun *)

\* full_query of the submit handler
FullQuery(q, age, gender) ==
    IF age # "" \/ gender # "Prefer not to say"
    THEN "For a " \o age \o "-year-old " \o lower(gender) \o ", " \o q
    ELSE q

\* risk_advisories = get_risk_snippets(question)
HandlerAdvisories(q, full_query) == get_risk_snippets(q)

\* the new entry put first
HistoryAppend_prepends(h, entry) == <<entry>> \o h

\* st.session_state.history.append({...})
HistoryAppend(h, entry) == Append(h, entry)

\* reversed(st.session_state.history), as the history tab walks it
HistoryView(h) == Reverse(h)

\* flat_data of the export: one row per entry, the links joined by "; "
ExportRows(h) ==
    [i \in 1..Len(h) |->
        [Question |-> h[i].Question, Answer |-> h[i].Answer,
         Sources |-> join("; ", [j \in 1..Len(h[i].Sources) |-> h[i].Sources[j][2]])]]

\* the page before its first rerun, but for the inputs of a call
Fresh ==
    /\ history = <<>>
    /\ op = "load"
    /\ user_age = ""
    /\ user_gender = "Prefer not to say"
    /\ calls = <<>>
    /\ snippets = <<>>
    /\ answer = ""
    /\ sources = <<>>
    /\ risk_advisories = <<>>
    /\ raised = FALSE
    /\ histView = <<>>
    /\ flat_data = <<>>
    /\ severity = ""

NoReply == [kind |-> "none"]

Init ==
    /\ Fresh
    /\ question = ""
    /\ num_results = DefaultNumResults
    /\ search_reply = NoReply

\* "Get Answer" clicked with a question typed: the handler, then the history tab
RunSubmit(q, age, gender, response, completion) ==
    LET full_query == FullQuery(q, age, gender)
        r          == answer_medical_question(full_query, response, completion)
        entry      == [Question |-> q, Answer |-> r.answer, Sources |-> r.sources]
    IN  /\ q # ""
        /\ op' = "get_answer"
        /\ question' = q
        /\ user_age' = age
        /\ user_gender' = gender
        /\ calls' = r.calls
        /\ snippets' = r.snippets
        /\ raised' = r.raised
        /\ flat_data' = <<>>
        /\ UNCHANGED <<num_results, search_reply, severity>>
        /\ IF r.raised
           THEN /\ answer' = ""
                /\ sources' = <<>>
                /\ risk_advisories' = <<>>
                /\ histView' = <<>>
                /\ UNCHANGED history
           ELSE /\ answer' = r.answer
                /\ sources' = r.sources
                /\ risk_advisories' = HandlerAdvisories(q, full_query)
                /\ history' = HistoryAppend(history, entry)
                /\ histView' = HistoryView(history')

\* a rerun whose handler does not run: only the history tab is rendered
RenderOnly(cause, q, age, gender) ==
    /\ op' = cause
    /\ question' = q
    /\ user_age' = age
    /\ user_gender' = gender
    /\ calls' = <<>>
    /\ snippets' = <<>>
    /\ answer' = ""
    /\ sources' = <<>>
    /\ risk_advisories' = <<>>
    /\ raised' = FALSE
    /\ histView' = HistoryView(history)
    /\ UNCHANGED <<history, num_results, search_reply, severity>>

Submit ==
    /\ Len(history) < MaxHistory
    /\ \E q \in Questions, age \in Ages, gender \in Genders,
          response \in SessionResponses, completion \in Completions :
            RunSubmit(q, age, gender, response, completion)

\* "Get Answer" clicked with the question input empty
SubmitEmpty ==
    /\ RenderOnly("get_answer_empty", "", "", "Prefer not to say")
    /\ flat_data' = <<>>

\* a rerun caused by a widget other than the two buttons
Rerun ==
    /\ \E q \in RerunQuestions : RenderOnly("rerun", q, "", "Prefer not to say")
    /\ flat_data' = <<>>

\* the export button, which the history tab shows once there is an entry
Export ==
    /\ history # <<>>
    /\ ~raised
    /\ RenderOnly("export", "", "", "Prefer not to say")
    /\ flat_data' = ExportRows(history)

Next == Submit \/ SubmitEmpty \/ Rerun \/ Export

Spec == Init /\ [][Next]_vars

\* the first "Get Answer" click of a session, on every question of the advisory
\* matcher typed into the input
InitRisk ==
    /\ Fresh
    /\ question \in RiskQuestions
    /\ num_results = DefaultNumResults
    /\ search_reply = NoReply

RiskSubmit ==
    /\ op = "load"
    /\ \E age \in RiskAges, gender \in Genders,
          response \in SessionResponses, completion \in Completions :
            RunSubmit(question, age, gender, response, completion)

NextRisk == RiskSubmit

SpecRisk == InitRisk /\ [][NextRisk]_vars

\* get_medical_snippets called on its own, on every reply of the backend
InitRetrieve ==
    /\ Fresh
    /\ question \in Queries
    /\ num_results \in NumResults
    /\ search_reply \in Responses

Retrieve ==
    LET r == get_medical_snippets(question, num_results, search_reply)
    IN  /\ op = "load"
        /\ op' = "get_medical_snippets"
        /\ calls' = <<SearchCall(question, num_results, search_reply)>>
        /\ snippets' = r.val
        /\ raised' = r.raised
        /\ UNCHANGED <<history, question, user_age, user_gender, answer, sources,
                       risk_advisories, histView, flat_data, num_results,
                       search_reply, severity>>

NextRetrieve == Retrieve

SpecRetrieve == InitRetrieve /\ [][NextRetrieve]_vars

\* classify_severity called on its own, on every question
InitSeverity ==
    /\ Fresh
    /\ question \in SevQuestions
    /\ num_results = DefaultNumResults
    /\ search_reply = NoReply

Classify ==
    /\ op = "load"
    /\ op' = "classify_severity"
    /\ severity' = classify_severity(question)
    /\ UNCHANGED <<history, question, user_age, user_gender, calls, snippets,
                   answer, sources, risk_advisories, raised, histView, flat_data,
                   num_results, search_reply>>

NextSeverity == Classify

SpecSeverity == InitSeverity /\ [][NextSeverity]_vars

----------------------------------------------------------------------------
(* Properties *)

\* the reply the search backend gave in this step
Reply == calls[1].result

\* the completion backend's outcome in this step, when it was called
CompletionCalled == \E i \in 1..Len(calls) : calls[i].api = "completion"

Outcome == calls[Len(calls)].result

RanSnippets == op = "get_medical_snippets"

RanHandler == op = "get_answer"

\* a result item's triple with its missing fields defaulted to ""
DefaultedTriple(item) == <<Get(item, "title"), Get(item, "link"), Get(item, "snippet")>>

ReplyItems == IF Reply.kind = "JsonItems" THEN Reply.items ELSE <<>>

IsNhs(item) == Contains(Get(item, "link"), "nhs.uk")

IsNotNhs(item) == ~IsNhs(item)

TriplesOf(items) == [i \in 1..Len(items) |-> DefaultedTriple(items[i])]

\* C1: get_medical_snippets never raises, and returns the empty list whenever
\* the backend call fails (network error, error status, unparsable or
\* malformed body).
C1_FailsSoft ==
    RanSnippets =>
        /\ raised = FALSE
        /\ (Reply \in FailedResponses => snippets = <<>>)

C1_Witness ==
    /\ RanSnippets
    /\ Reply.kind = "BadJson"
    /\ snippets = <<>>
    /\ ~raised

\* C2: on a successful response every result item yields one triple, a
\* missing title, link or snippet being the empty string.
C2_TripleForEveryItem ==
    (RanSnippets /\ Reply.kind = "JsonItems") =>
        /\ Len(snippets) = Len(ReplyItems)
        /\ \A i \in 1..Len(ReplyItems) :
              \E j \in 1..Len(snippets) : snippets[j] = DefaultedTriple(ReplyItems[i])

\* C3: the returned list never has more than num_results elements.
C3_AtMostNumResults == RanSnippets => Len(snippets) <= num_results

\* C4: the output is the stable partition of the backend's result list: the
\* items whose link contains "nhs.uk" in their backend order, then the others
\* in their backend order, none added, dropped or duplicated.
C4_StablePartition ==
    (RanSnippets /\ Reply.kind \in {"JsonItems", "JsonNoItems"}) =>
        snippets = TriplesOf(SelectSeq(ReplyItems, IsNhs))
                   \o TriplesOf(SelectSeq(ReplyItems, IsNotNhs))

\* the stable partition of the result lists all of whose items have the three
\* fields, which the retriever does return
StablePartitionOfCompleteItems ==
    (RanSnippets /\ Reply.kind = "JsonItems"
       /\ \A i \in 1..Len(ReplyItems) : HasAllKeys(ReplyItems[i])) =>
        snippets = TriplesOf(SelectSeq(ReplyItems, IsNhs))
                   \o TriplesOf(SelectSeq(ReplyItems, IsNotNhs))

\* C5: when retrieval yields no snippets, the answer is the fixed no-sources
\* message, the source list is empty and the completion backend is not called
\* in that invocation.
C5_NoSourcesNoCompletion ==
    (RanHandler /\ ~raised /\ snippets = <<>>) =>
        /\ answer = NO_SOURCES_MESSAGE
        /\ sources = <<>>
        /\ ~CompletionCalled
        /\ history[Len(history)].Answer = NO_SOURCES_MESSAGE
        /\ history[Len(history)].Sources = <<>>

C5_Witness ==
    /\ RanHandler
    /\ Reply.kind = "ConnectionError"
    /\ snippets = <<>>
    /\ answer = NO_SOURCES_MESSAGE
    /\ Len(calls) = 1

\* C6: when snippets were retrieved and the completion call raises, nothing
\* is propagated: the answer embeds the error's detail and the source list is
\* empty.
C6_CompletionFailsSoft ==
    (RanHandler /\ snippets # <<>> /\ CompletionCalled /\ Outcome.kind # "ok") =>
        /\ ~raised
        /\ sources = <<>>
        /\ StartsWith(answer, ERROR_PREFIX)
        /\ (Outcome.kind = "raise" => Contains(answer, Outcome.detail))
        /\ history[Len(history)].Sources = <<>>

C6_Witness ==
    /\ RanHandler
    /\ snippets # <<>>
    /\ CompletionCalled
    /\ Outcome.kind = "raise"
    /\ answer = ERROR_PREFIX \o "Connection error."
    /\ sources = <<>>

\* C7 as stated: every answer, returned or in the history, ends with the
\* disclaimer, whatever the outcome.
C7_AlwaysDisclaimer ==
    /\ (RanHandler /\ ~raised) => EndsWith(answer, DISCLAIMER)
    /\ \A i \in 1..Len(history) : EndsWith(history[i].Answer, DISCLAIMER)

\* C7 amended: the answer ends with the disclaimer when sources were found
\* and the completion succeeded; with no sources it is exactly the no-sources
\* message, and after a failed completion it is the error prefix followed by
\* the error's detail, the disclaimer appended to neither.
C7_DisclaimerOnSuccess ==
    /\ (RanHandler /\ ~raised) =>
          /\ (CompletionCalled /\ Outcome.kind = "ok") =>
                /\ EndsWith(answer, DISCLAIMER)
                /\ answer = strip(Outcome.content) \o DISCLAIMER
          /\ snippets = <<>> =>
                /\ answer = NO_SOURCES_MESSAGE
                /\ ~EndsWith(answer, DISCLAIMER)
          /\ (CompletionCalled /\ Outcome.kind = "raise") =>
                answer = ERROR_PREFIX \o Outcome.detail
    /\ \A i \in 1..Len(history) :
          \/ EndsWith(history[i].Answer, DISCLAIMER)
          \/ history[i].Answer = NO_SOURCES_MESSAGE
          \/ StartsWith(history[i].Answer, ERROR_PREFIX)

C7_Witness ==
    /\ Len(history) = 2
    /\ history[1].Answer = NO_SOURCES_MESSAGE
    /\ EndsWith(history[2].Answer, DISCLAIMER)
    /\ RanHandler
    /\ CompletionCalled
    /\ Outcome.kind = "ok"

AnyKeyword(keywords, q) == \E k \in keywords : Contains(lower(q), k)

\* C8: classify_severity returns one tag of Immediate, Urgent, Routine:
\* Immediate when an Immediate keyword occurs in the question, whatever the
\* case and even beside an Urgent keyword; Urgent when only Urgent keywords
\* occur; Routine when none does.
C8_SeverityPriority ==
    op = "classify_severity" =>
        /\ severity \in {"Immediate", "Urgent", "Routine"}
        /\ AnyKeyword(IMMEDIATE_KEYWORDS, question) => severity = "Immediate"
        /\ (~AnyKeyword(IMMEDIATE_KEYWORDS, question)
              /\ AnyKeyword(URGENT_KEYWORDS, question)) => severity = "Urgent"
        /\ (~AnyKeyword(IMMEDIATE_KEYWORDS, question)
              /\ ~AnyKeyword(URGENT_KEYWORDS, question)) => severity = "Routine"

C8_Witness ==
    /\ op = "classify_severity"
    /\ question = "DizzinessCHEST pain"
    /\ severity = "Immediate"

\* the places in RISK_SNIPPETS of the keywords that occur in the lowercased text
MatchedPlaces(text) ==
    {i \in 1..Len(RISK_SNIPPETS) : Contains(lower(text), RISK_SNIPPETS[i][1])}

PlaceOf(advisory) == CHOOSE i \in 1..Len(RISK_SNIPPETS) : RISK_SNIPPETS[i][2] = advisory

\* C9: the advisories shown are exactly the texts of the keywords that occur
\* in the lowercased raw question (not the augmented query), each once, in
\* the dictionary's order; none when no keyword occurs.
C9_AllAdvisoriesInOrder ==
    (RanHandler /\ ~raised) =>
        /\ Len(risk_advisories) = Cardinality(MatchedPlaces(question))
        /\ \A j \in 1..Len(risk_advisories) :
              /\ \E i \in 1..Len(RISK_SNIPPETS) : RISK_SNIPPETS[i][2] = risk_advisories[j]
              /\ PlaceOf(risk_advisories[j]) \in MatchedPlaces(question)
        /\ \A j, k \in 1..Len(risk_advisories) :
              j < k => PlaceOf(risk_advisories[j]) < PlaceOf(risk_advisories[k])

C9_Witness ==
    /\ RanHandler
    /\ question = "ASPIRINIbuprofen "
    /\ user_age = "fever"
    /\ risk_advisories = <<RISK_SNIPPETS[3][2], RISK_SNIPPETS[5][2]>>

IsPrefixOf(h, g) == Len(h) <= Len(g) /\ SubSeq(g, 1, Len(h)) = h

\* C10: the history is append-only: a submission with a question appends one
\* entry (raw question, answer, sources) at the end, soft failures included;
\* an empty submit, another rerun and the export leave it as it is; the
\* history tab reads it last entry first, and the export has one row per
\* entry, in insertion order, the links joined by "; ".
C10_AppendOnly ==
    [][ /\ IsPrefixOf(history, history')
        /\ (op' = "get_answer" /\ ~raised') =>
              history' = Append(history, [Question |-> question', Answer |-> answer',
                                          Sources |-> sources'])
        /\ op' \in {"get_answer_empty", "rerun", "export"} => history' = history
        /\ ~raised' =>
              /\ Len(histView') = Len(history')
              /\ \A i \in 1..Len(history') : histView'[i] = history'[Len(history') + 1 - i]
        /\ op' = "export" =>
              /\ Len(flat_data') = Len(history')
              /\ \A i \in 1..Len(history') :
                    /\ flat_data'[i].Question = history'[i].Question
                    /\ flat_data'[i].Answer = history'[i].Answer
                    /\ flat_data'[i].Sources =
                          join("; ", [j \in 1..Len(history'[i].Sources) |->
                                          history'[i].Sources[j][2]])
      ]_vars

C10_Witness ==
    /\ op = "export"
    /\ Len(history) = 2
    /\ Len(flat_data) = 2
    /\ history[1].Answer = NO_SOURCES_MESSAGE
    /\ history[2].Sources # <<>>
    /\ flat_data[2].Sources = "https://www.nhs.uk/a; https://www.cdc.gov/b"
    /\ histView[1] = history[2]

====
